---------------------------- MODULE Spec2Model ----------------------------
(***************************************************************************)
(* Model of the sharded aggregation command of the query router,           *)
(* src/src/mongo/s/commands/cluster_pipeline_cmd.cpp                       *)
(* (PipelineCommand::run and its helpers).                                 *)
(*                                                                         *)
(* One behaviour of the model is one invocation of PipelineCommand::run.   *)
(* The request, the routing context and the pipeline's properties are the  *)
(* inputs, drawn in Init.  Every remote call (the scatter dispatch to the  *)
(* shards, the merge command to the primary, the pass-through call, a      *)
(* cursor kill) is one step whose reply is drawn from a small set, and is  *)
(* recorded in `trace`, the ordered log of what the router did.            *)
(***************************************************************************)
EXTENDS Integers, Sequences, FiniteSets, TLC

\* ------------------------------------------------------------------ bounds

\* The largest number of shards a dispatch round targets.
MaxShards == 2

\* Cursor ids a shard may answer with are 0..MaxCursorId (0: no cursor).
MaxCursorId == 1

\* --------------------------------------------------------- program constants

\* uassertCanMergeInMongos: the client asked for a cursor.
ErrCursorNeedsAllShards == 17020
\* uassertCanMergeInMongos: the merge pipeline cannot run in the router.
ErrNewFeaturesNeedAllShards == 17021
\* parseCursors: the location code used when the failures share no code.
ErrMultipleShardFailures == 17022
\* parseCursors: a shard returned a non-empty first batch.
ErrNonEmptyFirstBatch == 17023
\* parseCursors: a shard returned cursor id 0.
ErrCursorIdZero == 17024
\* parseCursors: a shard returned a different namespace.
ErrDifferentNs == 17025
\* uassertAllShardsSupportExplain: a shard failed.
ErrExplainShardFailed == 17403
\* uassertAllShardsSupportExplain: a shard's reply has no "stages" field.
ErrExplainNotSupported == 17404
\* aggRunCommand: the host returned no result.
ErrNoResults == 17014
\* The result code a shard uses for stale routing metadata.
SendStaleConfigCode == 13388

\* The errmsg of a mongod < 2.6 asked for a cursor (the unbalanced quote is
\* the program's).
LegacyCursorErrmsg == "unrecognized field \"cursor"
\* The errmsg of a mongod < 2.6 asked to run $mergeCursors.
MergeCursorsErrmsg == "exception: Unrecognized pipeline stage name: '$mergeCursors'"

\* The namespace the request targets (parseNs), and another one.
FullNs == "db.coll"
OtherNs == "db.other"

\* ------------------------------------------------------------- documents

\* An optional field of a command document.
NoField == [present |-> FALSE]
Field(v) == [present |-> TRUE, value |-> v]

\* The client's requests: the explain flag, and the options the router
\* forwards.  The client's batch size is never 0 here, so that a forwarded
\* client cursor differs from the router's own cursor:{batchSize:0}.
ClientCursors == {NoField, Field([batchSize |-> 5])}
ClientQueryOptions == {NoField, Field(4)}
ClientMaxTimeMS == {NoField, Field(100)}

Requests ==
    [aggregate : {"coll"}, pipeline : {"full"}, explain : BOOLEAN,
     cursor : ClientCursors, queryOptions : ClientQueryOptions,
     maxTimeMS : ClientMaxTimeMS]

\* What the routing context says of the request: the pipeline does not
\* parse, the database lookup fails, the collection is not sharded, or it is.
Routings == {"parseError", "noDatabase", "unsharded", "sharded"}

\* ------------------------------------------------------ the shards' replies

\* Error codes of a failing shard; 0 is a reply without a code field.
ShardErrCodes == {0, 13, 50}

ShardReply(ok, code, errmsg, hasCursor, id, ns, firstBatchEmpty, hasStages, hasResult) ==
    [ok |-> ok, code |-> code, errmsg |-> errmsg, hasCursor |-> hasCursor,
     id |-> id, ns |-> ns, firstBatchEmpty |-> firstBatchEmpty,
     hasStages |-> hasStages, hasResult |-> hasResult]

\* A failing shard: ok false, an error message and a code.
FailedReplies ==
    { ShardReply(FALSE, c, "other", FALSE, 0, FullNs, TRUE, FALSE, FALSE) :
        c \in ShardErrCodes }

\* A mongod < 2.6 asked for a cursor.
LegacyReply ==
    ShardReply(FALSE, 0, LegacyCursorErrmsg, FALSE, 0, FullNs, TRUE, FALSE, FALSE)

\* Replies to a command that asks for a cursor: a cursor (conforming or not),
\* an ok reply without a cursor field, a failure, or the legacy error.
CursorReplies ==
    { ShardReply(TRUE, 0, "", TRUE, id, ns, fbe, FALSE, FALSE) :
        id \in 0..MaxCursorId, ns \in {FullNs, OtherNs}, fbe \in BOOLEAN }
    \cup { ShardReply(TRUE, 0, "", FALSE, 0, FullNs, TRUE, FALSE, FALSE) }
    \cup FailedReplies \cup {LegacyReply}

\* Replies to an explain command: ok with or without "stages", or a failure.
ExplainReplies ==
    { ShardReply(TRUE, 0, "", FALSE, 0, FullNs, TRUE, st, FALSE) : st \in BOOLEAN }
    \cup FailedReplies

\* Replies to the command without the cursor option: the raw result, or a
\* failure.
RawReplies ==
    { ShardReply(TRUE, 0, "", FALSE, 0, FullNs, TRUE, FALSE, TRUE) }
    \cup FailedReplies

\* What a shard answers to a command the router dispatched.
RepliesTo(cmd) ==
    IF cmd.explain THEN ExplainReplies
    ELSE IF cmd.cursor.present THEN CursorReplies
    ELSE RawReplies

\* ------------------------------------------------ the primary's replies

HostReply(ok, code, errmsg) == [ok |-> ok, code |-> code, errmsg |-> errmsg]

\* The primary's answer to an aggregate command; NoReply is a query that
\* returned no result.
NoReply == [ok |-> FALSE, code |-> 0, errmsg |-> "no reply"]

PassthroughReplies ==
    { HostReply(TRUE, 0, ""), HostReply(FALSE, 13, "other"),
      HostReply(FALSE, SendStaleConfigCode, "other"), NoReply }

MergeReplies ==
    PassthroughReplies \cup { HostReply(FALSE, 16436, MergeCursorsErrmsg) }

\* ------------------------------------------------------------- outcomes

\* run() returned `ok`; the result document is in `result`.
Returned(ok) == [kind |-> "returned", ok |-> ok, fault |-> "", code |-> 0]
\* run() raised a fault: "uassert" (a user error), "massert" (a fatal
\* assertion), "bson" (a field of the wrong type), "invariant" (the process
\* aborts), "staleConfig" (RecvStaleConfigException), "pipeline" (the local
\* pipeline run failed).
Threw(fault, code) == [kind |-> "threw", ok |-> FALSE, fault |-> fault, code |-> code]
Running == [kind |-> "none", ok |-> FALSE, fault |-> "", code |-> 0]

EmptyResult == [kind |-> "empty"]

VARIABLES
    pc,             \* where run() is
    cmdObj,         \* the client's command
    routing,        \* what the catalog says of the namespace
    canRunInMongos, \* Pipeline::canRunInMongos of the merge pipeline
    shardedCommand, \* the command of the last dispatch round
    shardResults,   \* run()'s shardResults: the first round's replies
    fallbackResults,\* noCursorFallback's shardResults
    mergeSource,    \* the initial source added to the merge pipeline
    mergeCmd,       \* the merge command sent to the primary
    mergedResults,  \* the primary's reply to the merge command
    result,         \* the BSONObjBuilder run() fills
    outcome,        \* how run() ended
    trace           \* what the router did, in order

vars == <<pc, cmdObj, routing, canRunInMongos, shardedCommand, shardResults,
          fallbackResults, mergeSource, mergeCmd, mergedResults, result,
          outcome, trace>>

NoCommand == [kind |-> "none"]
NoSource == [kind |-> "none"]

Init ==
    /\ pc = "start"
    /\ cmdObj \in Requests
    /\ routing \in Routings
    /\ canRunInMongos \in BOOLEAN
    /\ shardedCommand = NoCommand
    /\ shardResults = <<>>
    /\ fallbackResults = <<>>
    /\ mergeSource = NoSource
    /\ mergeCmd = NoCommand
    /\ mergedResults = NoReply
    /\ result = EmptyResult
    /\ outcome = Running
    /\ trace = <<>>

\* run() ends: nothing changes but pc, outcome, result and the trace.
Finish(out, res, events) ==
    /\ pc' = "done"
    /\ outcome' = out
    /\ result' = res
    /\ trace' = trace \o events


\* ------------------------------------------------------- the commands sent

\* A variant of ShardedCommand that asks for a cursor even in an explain.
ShardedCommandAlwaysCursor(cmd) ==
    [aggregate |-> cmd.aggregate, pipeline |-> "shardPart",
     explain |-> cmd.explain, fromRouter |-> TRUE,
     queryOptions |-> cmd.queryOptions,
     cursor |-> Field([batchSize |-> 0]),
     maxTimeMS |-> cmd.maxTimeMS]

\* run(): the command for the shards.  fromRouter is always set; the cursor
\* option is left out of an explain; $queryOptions and maxTimeMS are copied
\* from the client's command when it has them.
ShardedCommand(cmd) ==
    [aggregate |-> cmd.aggregate, pipeline |-> "shardPart",
     explain |-> cmd.explain, fromRouter |-> TRUE,
     queryOptions |-> cmd.queryOptions,
     cursor |-> IF ~cmd.explain THEN Field([batchSize |-> 0]) ELSE NoField,
     maxTimeMS |-> cmd.maxTimeMS]

\* A variant of FallbackCommand that does not set fromRouter.
FallbackCommandNotFromRouter(cmd) ==
    [aggregate |-> cmd.aggregate, pipeline |-> "shardPart",
     explain |-> cmd.explain, fromRouter |-> FALSE,
     queryOptions |-> cmd.queryOptions,
     cursor |-> NoField,
     maxTimeMS |-> NoField]

\* noCursorFallback(): the command of the re-dispatch.  It sets fromRouter and
\* copies $queryOptions; it sets neither cursor nor maxTimeMS.
FallbackCommand(cmd) ==
    [aggregate |-> cmd.aggregate, pipeline |-> "shardPart",
     explain |-> cmd.explain, fromRouter |-> TRUE,
     queryOptions |-> cmd.queryOptions,
     cursor |-> NoField,
     maxTimeMS |-> NoField]

\* run(): the merge pipeline after addInitialSource($mergeCursors).
MergeCursorsSource(cursors) == [kind |-> "mergeCursors", cursors |-> cursors]

\* noCursorFallback(): the merge pipeline's source over the raw results.
CommandShardsSource(results) == [kind |-> "commandShards", results |-> results]

\* run(): the merge command: the merge pipeline behind its $mergeCursors
\* source, with the client's cursor, $queryOptions and maxTimeMS.
MergeCommand(cmd, source) ==
    [aggregate |-> cmd.aggregate, pipeline |-> <<source, "mergePart">>,
     cursor |-> cmd.cursor, queryOptions |-> cmd.queryOptions,
     maxTimeMS |-> cmd.maxTimeMS]

\* ------------------------------------------------------------- the helpers

\* A variant of doAnyShardsNotSupportCursors that returns from inside the
\* loop: it looks at the first reply only.
doAnyShardsNotSupportCursorsFirstOnly(results) ==
    Len(results) > 0 /\ results[1].errmsg = LegacyCursorErrmsg

\* A variant of doAnyShardsNotSupportCursors that gives way to a failure
\* other than the legacy error: with one, it answers false.
doAnyShardsNotSupportCursorsUnlessFailed(results) ==
    /\ \E i \in 1..Len(results) : results[i].errmsg = LegacyCursorErrmsg
    /\ \A i \in 1..Len(results) :
          results[i].ok \/ results[i].errmsg = LegacyCursorErrmsg

\* doAnyShardsNotSupportCursors(): some reply has the legacy errmsg.
doAnyShardsNotSupportCursors(results) ==
    \E i \in 1..Len(results) : results[i].errmsg = LegacyCursorErrmsg

\* A variant of wasMergeCursorsSupported for which every reply is supported.
wasMergeCursorsSupportedAlways(cmdResult) == TRUE

\* wasMergeCursorsSupported(): the reply is not the $mergeCursors error.
wasMergeCursorsSupported(cmdResult) ==
    cmdResult.errmsg # MergeCursorsErrmsg

\* A variant of uassertCanMergeInMongos without the canRunInMongos check.
uassertCanMergeInMongosCursorOnly(canRun, cmd) ==
    IF cmd.cursor.present THEN ErrCursorNeedsAllShards ELSE 0

\* uassertCanMergeInMongos(): the code of the uassert that fires, 0 if none.
uassertCanMergeInMongos(canRun, cmd) ==
    IF cmd.cursor.present THEN ErrCursorNeedsAllShards
    ELSE IF ~canRun THEN ErrNewFeaturesNeedAllShards
    ELSE 0

\* uassertAllShardsSupportExplain(): the code of the first uassert that
\* fires, going through the replies in order, 0 if none.
RECURSIVE explainCheckFrom(_, _)
explainCheckFrom(results, i) ==
    IF i > Len(results) THEN 0
    ELSE IF ~results[i].ok THEN ErrExplainShardFailed
    ELSE IF ~results[i].hasStages THEN ErrExplainNotSupported
    ELSE explainCheckFrom(results, i + 1)

\* A variant of uassertAllShardsSupportExplain without the "stages" check.
uassertAllShardsSupportExplainOkOnly(results) ==
    IF \E i \in 1..Len(results) : ~results[i].ok THEN ErrExplainShardFailed ELSE 0

uassertAllShardsSupportExplain(results) == explainCheckFrom(results, 1)

\* killAllCursors(): the (shard, cursor id) pairs a kill is attempted for, in
\* order.  A reply that is not ok, or whose cursor id is 0, is skipped; an ok
\* reply without a cursor field raises inside the try block, which is logged
\* and skipped too.
RECURSIVE killAllCursorsFrom(_, _)
killAllCursorsFrom(results, i) ==
    IF i > Len(results) THEN <<>>
    ELSE IF ~results[i].ok THEN killAllCursorsFrom(results, i + 1)
    ELSE IF ~results[i].hasCursor THEN killAllCursorsFrom(results, i + 1)
    ELSE IF results[i].id = 0 THEN killAllCursorsFrom(results, i + 1)
    ELSE <<[shard |-> i, id |-> results[i].id]>>
             \o killAllCursorsFrom(results, i + 1)

\* A variant of killAllCursors that leaves the loop at the first reply that
\* is not ok (break for continue).
RECURSIVE killUntilFailureFrom(_, _)
killUntilFailureFrom(results, i) ==
    IF i > Len(results) THEN <<>>
    ELSE IF ~results[i].ok THEN <<>>
    ELSE IF ~results[i].hasCursor THEN killUntilFailureFrom(results, i + 1)
    ELSE IF results[i].id = 0 THEN killUntilFailureFrom(results, i + 1)
    ELSE <<[shard |-> i, id |-> results[i].id]>>
             \o killUntilFailureFrom(results, i + 1)

killAllCursorsStopsAtFailure(results) == killUntilFailureFrom(results, 1)

\* A variant of killAllCursors without the test for cursor id 0.
RECURSIVE killAlsoZeroFrom(_, _)
killAlsoZeroFrom(results, i) ==
    IF i > Len(results) THEN <<>>
    ELSE IF ~results[i].ok THEN killAlsoZeroFrom(results, i + 1)
    ELSE IF ~results[i].hasCursor THEN killAlsoZeroFrom(results, i + 1)
    ELSE <<[shard |-> i, id |-> results[i].id]>>
             \o killAlsoZeroFrom(results, i + 1)

killAllCursorsKillsIdZero(results) == killAlsoZeroFrom(results, 1)

\* A variant of killAllCursors that kills only the cursors validation would
\* accept: a cursor of another namespace or with a first batch is left open.
RECURSIVE killConformingFrom(_, _)
killConformingFrom(results, i) ==
    IF i > Len(results) THEN <<>>
    ELSE IF ~results[i].ok THEN killConformingFrom(results, i + 1)
    ELSE IF ~results[i].hasCursor THEN killConformingFrom(results, i + 1)
    ELSE IF results[i].id = 0 THEN killConformingFrom(results, i + 1)
    ELSE IF results[i].ns # FullNs \/ ~results[i].firstBatchEmpty
         THEN killConformingFrom(results, i + 1)
    ELSE <<[shard |-> i, id |-> results[i].id]>>
             \o killConformingFrom(results, i + 1)

killAllCursorsConformingOnly(results) == killConformingFrom(results, 1)

killAllCursors(results) == killAllCursorsFrom(results, 1)

\* A variant of KillEvents in which the first kill that raises ends the loop:
\* no kill is attempted after it.
KillEventsStopAtFailure(targets, failed) ==
    LET last == IF failed = {} THEN Len(targets)
                ELSE CHOOSE j \in failed : \A k \in failed : j <= k
    IN  [j \in 1..last |->
            [type |-> "kill", shard |-> targets[j].shard, id |-> targets[j].id,
             failed |-> (j \in failed)]]

\* The trace of killAllCursors: one kill per pair; `failed` are the kills that
\* raised (no connection, a network error), which the function logs and
\* swallows.
KillEvents(targets, failed) ==
    [j \in 1..Len(targets) |->
        [type |-> "kill", shard |-> targets[j].shard, id |-> targets[j].id,
         failed |-> (j \in failed)]]

\* getUniqueCodeFromCommandResults(): the code the failing replies share, 0
\* when they share none (or none failed).
getUniqueCodeFromCommandResults(results) ==
    LET codes == { results[i].code : i \in { j \in 1..Len(results) : ~results[j].ok } }
    IN  IF Cardinality(codes) = 1 THEN CHOOSE c \in codes : TRUE ELSE 0

\* A variant of representativeCode that takes the code of the last failing
\* reply, whatever the other failures carry.
representativeCodeOfLastFailure(results) ==
    LET failing == { j \in 1..Len(results) : ~results[j].ok }
        last == CHOOSE j \in failing : \A k \in failing : k <= j
    IN  IF failing = {} \/ results[last].code = 0
        THEN ErrMultipleShardFailures
        ELSE results[last].code

\* A variant of representativeCode that keeps 0 for "no single code".
representativeCodeKeepsZero(results) ==
    getUniqueCodeFromCommandResults(results)

\* parseCursors(), at a failing reply: the representative code, with 17022
\* for "no single code".
representativeCode(results) ==
    LET errCode == getUniqueCodeFromCommandResults(results)
    IN  IF errCode = 0 THEN ErrMultipleShardFailures ELSE errCode

ParseThrew(fault, code) == [threw |-> TRUE, fault |-> fault, code |-> code, cursors |-> <<>>]
ParseReturned(cursors) == [threw |-> FALSE, fault |-> "", code |-> 0, cursors |-> cursors]

\* parseCursors(), the try block: the replies in order; per reply ok, then
\* the cursor field, then the empty first batch, the non-zero id and the
\* namespace; the handle (target, id) is appended.
RECURSIVE parseCursorsFrom(_, _, _, _)
parseCursorsFrom(results, fullns, i, cursors) ==
    IF i > Len(results) THEN ParseReturned(cursors)
    ELSE IF ~results[i].ok THEN
        LET errCode == representativeCode(results)
        IN  IF errCode = results[i].code \/ errCode = ErrMultipleShardFailures
            THEN ParseThrew("uassert", errCode)
            ELSE ParseThrew("invariant", 0)
    ELSE IF ~results[i].hasCursor THEN ParseThrew("bson", 0)
    ELSE IF ~results[i].firstBatchEmpty THEN ParseThrew("massert", ErrNonEmptyFirstBatch)
    ELSE IF results[i].id = 0 THEN ParseThrew("massert", ErrCursorIdZero)
    ELSE IF results[i].ns # fullns THEN ParseThrew("massert", ErrDifferentNs)
    ELSE parseCursorsFrom(results, fullns, i + 1,
                          Append(cursors, [target |-> i, id |-> results[i].id]))

\* A variant of parseCursors without the namespace assertion.
RECURSIVE parseCursorsAnyNsFrom(_, _, _, _)
parseCursorsAnyNsFrom(results, fullns, i, cursors) ==
    IF i > Len(results) THEN ParseReturned(cursors)
    ELSE IF ~results[i].ok THEN
        LET errCode == representativeCode(results)
        IN  IF errCode = results[i].code \/ errCode = ErrMultipleShardFailures
            THEN ParseThrew("uassert", errCode)
            ELSE ParseThrew("invariant", 0)
    ELSE IF ~results[i].hasCursor THEN ParseThrew("bson", 0)
    ELSE IF ~results[i].firstBatchEmpty THEN ParseThrew("massert", ErrNonEmptyFirstBatch)
    ELSE IF results[i].id = 0 THEN ParseThrew("massert", ErrCursorIdZero)
    ELSE parseCursorsAnyNsFrom(results, fullns, i + 1,
                               Append(cursors, [target |-> i, id |-> results[i].id]))

parseCursorsAnyNs(results, fullns) == parseCursorsAnyNsFrom(results, fullns, 1, <<>>)

\* A variant of parseCursors that passes over a failed reply instead of
\* raising: the handles of the other shards are returned.
RECURSIVE parseCursorsSkipsFailedFrom(_, _, _, _)
parseCursorsSkipsFailedFrom(results, fullns, i, cursors) ==
    IF i > Len(results) THEN ParseReturned(cursors)
    ELSE IF ~results[i].ok
         THEN parseCursorsSkipsFailedFrom(results, fullns, i + 1, cursors)
    ELSE IF ~results[i].hasCursor THEN ParseThrew("bson", 0)
    ELSE IF ~results[i].firstBatchEmpty THEN ParseThrew("massert", ErrNonEmptyFirstBatch)
    ELSE IF results[i].id = 0 THEN ParseThrew("massert", ErrCursorIdZero)
    ELSE IF results[i].ns # fullns THEN ParseThrew("massert", ErrDifferentNs)
    ELSE parseCursorsSkipsFailedFrom(results, fullns, i + 1,
                                     Append(cursors, [target |-> i, id |-> results[i].id]))

parseCursorsSkipsFailed(results, fullns) ==
    parseCursorsSkipsFailedFrom(results, fullns, 1, <<>>)

\* A variant of parseCursors that looks for a failed reply in all replies
\* before it validates any cursor.
parseCursorsFailuresFirst(results, fullns) ==
    IF \E i \in 1..Len(results) : ~results[i].ok
    THEN ParseThrew("uassert", representativeCode(results))
    ELSE parseCursorsFrom(results, fullns, 1, <<>>)

\* A variant of parseCursors whose loop starts at the second reply.
parseCursorsSkipsFirst(results, fullns) == parseCursorsFrom(results, fullns, 2, <<>>)

parseCursors(results, fullns) == parseCursorsFrom(results, fullns, 1, <<>>)

\* aggRunCommand(): the reply, or massert 17014 when there is none.
aggRunCommandThrows(reply) == reply = NoReply

\* run(), explain: the plan document.
ExplainResult(results) ==
    [kind |-> "explain",
     splitPipeline |-> [shardsPart |-> "shardPart", mergerPart |-> "mergePart"],
     shards |-> [i \in 1..Len(results) |->
                    [name |-> i, host |-> i, stages |-> <<"stages", i>>]]]

\* A variant of ElementsOf that copies the ok field only.
ElementsOfOkOnly(doc) ==
    [kind |-> "elements", doc |-> [ok |-> doc.ok, code |-> 0, errmsg |-> ""]]

\* A variant of isStaleConfig for which no reply is a stale-config failure.
isStaleConfigNever(reply) == FALSE

\* aggPassthrough(): the reply is a failure with the stale-config code.
isStaleConfig(reply) == ~reply.ok /\ reply.code = SendStaleConfigCode

\* appendElements(): the host's document, copied.
ElementsOf(doc) == [kind |-> "elements", doc |-> doc]

\* Pipeline::run(result): the output of the merge pipeline over its source.
PipelineOutput(source) == [kind |-> "pipelineRun", source |-> source]


\* ------------------------------------------------------------- the actions

\* run(): the pipeline does not parse; run() returns false.
RunParseError ==
    /\ pc = "start"
    /\ routing = "parseError"
    /\ Finish(Returned(FALSE), result, <<>>)
    /\ UNCHANGED <<cmdObj, routing, canRunInMongos, shardedCommand, shardResults,
                   fallbackResults, mergeSource, mergeCmd, mergedResults>>

\* run(): the database lookup fails; run() returns what appendEmptyResultSet
\* returns (true for a database that does not exist, false otherwise).
RunNoDatabase ==
    /\ pc = "start"
    /\ routing = "noDatabase"
    /\ \E ok \in BOOLEAN :
          Finish(Returned(ok), [kind |-> "emptyResultSet"], <<>>)
    /\ UNCHANGED <<cmdObj, routing, canRunInMongos, shardedCommand, shardResults,
                   fallbackResults, mergeSource, mergeCmd, mergedResults>>

\* run(): sharding is not enabled, or the collection is not sharded: the
\* command is passed to the primary.
RunUnsharded ==
    /\ pc = "start"
    /\ routing = "unsharded"
    /\ pc' = "passthrough"
    /\ UNCHANGED <<cmdObj, routing, canRunInMongos, shardedCommand, shardResults,
                   fallbackResults, mergeSource, mergeCmd, mergedResults,
                   result, outcome, trace>>

\* aggPassthrough(): one call to the primary with the client's command; the
\* stale-config code is raised, any other reply is copied to the result.
AggPassthrough ==
    /\ pc = "passthrough"
    /\ \E reply \in PassthroughReplies :
          LET sent == <<[type |-> "passthrough", host |-> "primary", cmd |-> cmdObj,
                         reply |-> reply]>>
          IN  IF aggRunCommandThrows(reply)
              THEN Finish(Threw("massert", ErrNoResults), result, sent)
              ELSE IF isStaleConfig(reply)
              THEN Finish(Threw("staleConfig", SendStaleConfigCode), result, sent)
              ELSE Finish(Returned(reply.ok), ElementsOf(reply), sent)
    /\ UNCHANGED <<cmdObj, routing, canRunInMongos, shardedCommand, shardResults,
                   fallbackResults, mergeSource, mergeCmd, mergedResults>>

\* run(): the collection is sharded: the pipeline is split and the command
\* for the shards is built.
RunSplit ==
    /\ pc = "start"
    /\ routing = "sharded"
    /\ shardedCommand' = ShardedCommand(cmdObj)
    /\ pc' = "dispatch"
    /\ UNCHANGED <<cmdObj, routing, canRunInMongos, shardResults,
                   fallbackResults, mergeSource, mergeCmd, mergedResults,
                   result, outcome, trace>>

\* A variant of Dispatch that returns when the first shard has replied: the
\* replies of the other shards are not waited for.
DispatchFirstReplyOnly ==
    /\ pc = "dispatch"
    /\ \E n \in 1..MaxShards :
          \E replies \in [1..n -> RepliesTo(shardedCommand)] :
             /\ shardResults' = SubSeq(replies, 1, 1)
             /\ trace' = Append(trace, [type |-> "dispatch", round |-> 1,
                                        cmd |-> shardedCommand, shards |-> n])
    /\ pc' = "gathered"
    /\ UNCHANGED <<cmdObj, routing, canRunInMongos, shardedCommand,
                   fallbackResults, mergeSource, mergeCmd, mergedResults,
                   result, outcome>>

\* run(): commandOp sends the command to every candidate shard and returns
\* when each has replied or failed.
Dispatch ==
    /\ pc = "dispatch"
    /\ \E n \in 1..MaxShards :
          \E replies \in [1..n -> RepliesTo(shardedCommand)] :
             /\ shardResults' = replies
             /\ trace' = Append(trace, [type |-> "dispatch", round |-> 1,
                                        cmd |-> shardedCommand, shards |-> n])
    /\ pc' = "gathered"
    /\ UNCHANGED <<cmdObj, routing, canRunInMongos, shardedCommand,
                   fallbackResults, mergeSource, mergeCmd, mergedResults,
                   result, outcome>>

\* run(): commandOp raises (stale routing metadata); run() has no handler,
\* the exception leaves it.
DispatchThrows ==
    /\ pc = "dispatch"
    /\ Finish(Threw("staleConfig", SendStaleConfigCode), result,
              <<[type |-> "dispatch", round |-> 1, cmd |-> shardedCommand, shards |-> 0]>>)
    /\ UNCHANGED <<cmdObj, routing, canRunInMongos, shardedCommand, shardResults,
                   fallbackResults, mergeSource, mergeCmd, mergedResults>>

\* run(), explain: every shard must have answered ok with "stages"; the
\* result is the plan of both halves and each shard's stages.
Explain ==
    /\ pc = "gathered"
    /\ cmdObj.explain
    /\ LET code == uassertAllShardsSupportExplain(shardResults)
       IN  IF code # 0
           THEN Finish(Threw("uassert", code), result, <<>>)
           ELSE Finish(Returned(TRUE), ExplainResult(shardResults), <<>>)
    /\ UNCHANGED <<cmdObj, routing, canRunInMongos, shardedCommand, shardResults,
                   fallbackResults, mergeSource, mergeCmd, mergedResults>>

\* A variant of FallbackKill that kills some of the opened cursors, which
\* ones is not decided by the replies.
FallbackKillSomeCursors ==
    /\ pc = "gathered"
    /\ ~cmdObj.explain
    /\ doAnyShardsNotSupportCursors(shardResults)
    /\ LET targets == killAllCursors(shardResults)
       IN  \E n \in 0..Len(targets) :
              trace' = trace \o KillEvents(SubSeq(targets, 1, n), {})
    /\ pc' = "fallback"
    /\ UNCHANGED <<cmdObj, routing, canRunInMongos, shardedCommand, shardResults,
                   fallbackResults, mergeSource, mergeCmd, mergedResults,
                   result, outcome>>

\* run(): a shard does not know the cursor option: the cursors the other
\* shards opened are killed, and noCursorFallback is entered.
FallbackKill ==
    /\ pc = "gathered"
    /\ ~cmdObj.explain
    /\ doAnyShardsNotSupportCursors(shardResults)
    /\ LET targets == killAllCursors(shardResults)
       IN  \E failed \in SUBSET (1..Len(targets)) :
              trace' = trace \o KillEvents(targets, failed)
    /\ pc' = "fallback"
    /\ UNCHANGED <<cmdObj, routing, canRunInMongos, shardedCommand, shardResults,
                   fallbackResults, mergeSource, mergeCmd, mergedResults,
                   result, outcome>>

\* noCursorFallback(): the request must be one the router can merge; the
\* command is sent again without the cursor option.
NoCursorFallback ==
    /\ pc = "fallback"
    /\ LET code == uassertCanMergeInMongos(canRunInMongos, cmdObj)
       IN  IF code # 0
           THEN /\ Finish(Threw("uassert", code), result, <<>>)
                /\ UNCHANGED <<shardedCommand, fallbackResults>>
           ELSE /\ shardedCommand' = FallbackCommand(cmdObj)
                /\ \E n \in 1..MaxShards :
                      \E replies \in [1..n -> RepliesTo(FallbackCommand(cmdObj))] :
                         /\ fallbackResults' = replies
                         /\ trace' = Append(trace,
                                [type |-> "dispatch", round |-> 2,
                                 cmd |-> FallbackCommand(cmdObj), shards |-> n])
                /\ pc' = "fallbackGathered"
                /\ UNCHANGED <<result, outcome>>
    /\ UNCHANGED <<cmdObj, routing, canRunInMongos, shardResults,
                   mergeSource, mergeCmd, mergedResults>>

\* noCursorFallback(): commandOp raises on the re-dispatch.
FallbackDispatchThrows ==
    /\ pc = "fallback"
    /\ uassertCanMergeInMongos(canRunInMongos, cmdObj) = 0
    /\ shardedCommand' = FallbackCommand(cmdObj)
    /\ Finish(Threw("staleConfig", SendStaleConfigCode), result,
              <<[type |-> "dispatch", round |-> 2,
                 cmd |-> FallbackCommand(cmdObj), shards |-> 0]>>)
    /\ UNCHANGED <<cmdObj, routing, canRunInMongos, shardResults,
                   fallbackResults, mergeSource, mergeCmd, mergedResults>>

\* noCursorFallback(): the raw results become the merge pipeline's source,
\* and the pipeline runs in the router; run() returns true.
FallbackMerge ==
    /\ pc = "fallbackGathered"
    /\ mergeSource' = CommandShardsSource(fallbackResults)
    /\ LET ran == <<[type |-> "localMerge", source |-> CommandShardsSource(fallbackResults)]>>
       IN  \E done \in BOOLEAN :
              IF done
              THEN Finish(Returned(TRUE),
                          PipelineOutput(CommandShardsSource(fallbackResults)), ran)
              ELSE Finish(Threw("pipeline", 0), result, ran)
    /\ UNCHANGED <<cmdObj, routing, canRunInMongos, shardedCommand, shardResults,
                   fallbackResults, mergeCmd, mergedResults>>

\* run(): parseCursors validates every reply; a fault kills the cursors (the
\* catch block) and leaves run(); a failed invariant() aborts the process,
\* which runs no catch block.  Otherwise the handles become the merge
\* pipeline's source and the merge command is built.
ParseCursors ==
    /\ pc = "gathered"
    /\ ~cmdObj.explain
    /\ ~doAnyShardsNotSupportCursors(shardResults)
    /\ LET parsed == parseCursors(shardResults, FullNs)
           called == <<[type |-> "parseCursors"]>>
       IN  IF parsed.threw
           THEN /\ LET targets == IF parsed.fault = "invariant"
                                  THEN <<>>
                                  ELSE killAllCursors(shardResults)
                   IN  \E failed \in SUBSET (1..Len(targets)) :
                          Finish(Threw(parsed.fault, parsed.code), result,
                                 called \o KillEvents(targets, failed))
                /\ UNCHANGED <<mergeSource, mergeCmd>>
           ELSE /\ mergeSource' = MergeCursorsSource(parsed.cursors)
                /\ mergeCmd' = MergeCommand(cmdObj, MergeCursorsSource(parsed.cursors))
                /\ trace' = trace \o called
                /\ pc' = "merge"
                /\ UNCHANGED <<result, outcome>>
    /\ UNCHANGED <<cmdObj, routing, canRunInMongos, shardedCommand, shardResults,
                   fallbackResults, mergedResults>>

\* run(): the merge command is sent to the primary shard of the database.
RunMerge ==
    /\ pc = "merge"
    /\ \E reply \in MergeReplies :
          LET sent == <<[type |-> "merge", host |-> "primary", cmd |-> mergeCmd]>>
          IN  IF aggRunCommandThrows(reply)
              THEN /\ Finish(Threw("massert", ErrNoResults), result, sent)
                   /\ UNCHANGED mergedResults
              ELSE /\ mergedResults' = reply
                   /\ trace' = trace \o sent
                   /\ pc' = "merged"
                   /\ UNCHANGED <<result, outcome>>
    /\ UNCHANGED <<cmdObj, routing, canRunInMongos, shardedCommand, shardResults,
                   fallbackResults, mergeSource, mergeCmd>>

\* A variant of FinishMerge that treats the primary's rejection like the
\* legacy fallback: the cursors are killed before the router merges.
FinishMergeKillsFirst ==
    /\ pc = "merged"
    /\ IF ~mergedResults.ok /\ ~wasMergeCursorsSupported(mergedResults)
       THEN LET code == uassertCanMergeInMongos(canRunInMongos, cmdObj)
                kills == KillEvents(killAllCursors(shardResults), {})
                ran == <<[type |-> "localMerge", source |-> mergeSource]>>
            IN  IF code # 0
                THEN Finish(Threw("uassert", code), result, kills)
                ELSE \E done \in BOOLEAN :
                        IF done
                        THEN Finish(Returned(TRUE), PipelineOutput(mergeSource),
                                    kills \o ran)
                        ELSE Finish(Threw("pipeline", 0), result, kills \o ran)
       ELSE Finish(Returned(mergedResults.ok), ElementsOf(mergedResults), <<>>)
    /\ UNCHANGED <<cmdObj, routing, canRunInMongos, shardedCommand, shardResults,
                   fallbackResults, mergeSource, mergeCmd, mergedResults>>

\* run(): the primary does not know $mergeCursors: the merge pipeline runs in
\* the router if the request allows it.  Otherwise the primary's reply is
\* copied to the result and its ok is returned.
FinishMerge ==
    /\ pc = "merged"
    /\ IF ~mergedResults.ok /\ ~wasMergeCursorsSupported(mergedResults)
       THEN LET code == uassertCanMergeInMongos(canRunInMongos, cmdObj)
                ran == <<[type |-> "localMerge", source |-> mergeSource]>>
            IN  IF code # 0
                THEN Finish(Threw("uassert", code), result, <<>>)
                ELSE \E done \in BOOLEAN :
                        IF done
                        THEN Finish(Returned(TRUE), PipelineOutput(mergeSource), ran)
                        ELSE Finish(Threw("pipeline", 0), result, ran)
       ELSE Finish(Returned(mergedResults.ok), ElementsOf(mergedResults), <<>>)
    /\ UNCHANGED <<cmdObj, routing, canRunInMongos, shardedCommand, shardResults,
                   fallbackResults, mergeSource, mergeCmd, mergedResults>>

Next ==
    \/ RunParseError
    \/ RunNoDatabase
    \/ RunUnsharded
    \/ AggPassthrough
    \/ RunSplit
    \/ Dispatch
    \/ DispatchThrows
    \/ Explain
    \/ FallbackKill
    \/ NoCursorFallback
    \/ FallbackDispatchThrows
    \/ FallbackMerge
    \/ ParseCursors
    \/ RunMerge
    \/ FinishMerge

Spec == Init /\ [][Next]_vars


\* ------------------------------------------------- reading the state

\* The positions of the trace's events of one type.
EventsOf(type) == { k \in 1..Len(trace) : trace[k].type = type }

\* A kill was issued for the cursor `id` of shard `i`.
KillIssued(i, id) ==
    \E k \in EventsOf("kill") : trace[k].shard = i /\ trace[k].id = id

\* The first-round reply of shard i opened a cursor: ok, with a cursor field
\* whose id is not 0.
OpenedCursor(i) ==
    shardResults[i].ok /\ shardResults[i].hasCursor /\ shardResults[i].id # 0

\* The first-round reply of shard i honours the cursor contract.
HonoursContract(i) ==
    /\ shardResults[i].ok
    /\ shardResults[i].hasCursor
    /\ shardResults[i].firstBatchEmpty
    /\ shardResults[i].id # 0
    /\ shardResults[i].ns = FullNs

Shards == 1..Len(shardResults)
FailedShards == { i \in Shards : ~shardResults[i].ok }
LegacyShards == { i \in Shards : shardResults[i].errmsg = LegacyCursorErrmsg }

\* A sharded, non-explain operation whose first round has been gathered and
\* acted upon.
ActedOnResults ==
    /\ routing = "sharded"
    /\ ~cmdObj.explain
    /\ shardResults # <<>>
    /\ pc \in {"fallback", "fallbackGathered", "merge", "merged", "done"}

\* ---------------------------------------------------------------- C1

\* C1: in a non-explain operation whose first round holds a reply that is not
\* ok, once the router has acted on the replies (and so when the error is
\* surfaced) a kill has been issued for every reply that is ok with a
\* non-zero cursor id; no merge command is sent, no cursor handle reaches a
\* merge source, and run() returns a result only as the output of the
\* fallback's merge over the re-dispatched results.
C1_KillsBeforeErrorSurfaced ==
    (ActedOnResults /\ FailedShards # {}) =>
        /\ \A i \in Shards : OpenedCursor(i) => KillIssued(i, shardResults[i].id)
        /\ EventsOf("merge") = {}
        /\ mergeSource.kind # "mergeCursors"
        /\ pc \notin {"merge", "merged"}
        /\ (outcome.kind = "returned" =>
               /\ LegacyShards # {}
               /\ result = PipelineOutput(CommandShardsSource(fallbackResults)))

\* C1's case: a shard failed with code 13, another had opened a cursor, the
\* error has been surfaced and the kill is in the trace.
C1_Witness ==
    /\ pc = "done"
    /\ ~cmdObj.explain
    /\ Len(shardResults) = 2
    /\ ~shardResults[1].ok
    /\ OpenedCursor(2)
    /\ outcome = Threw("uassert", 13)
    /\ KillIssued(2, shardResults[2].id)

\* ---------------------------------------------------------------- C2

\* The code the claim expects: the code the failing replies share, 17022
\* when they share none or carry none.
ExpectedCode ==
    LET first == CHOOSE i \in FailedShards : \A j \in FailedShards : i <= j
    IN  IF /\ \A j \in FailedShards : shardResults[j].code = shardResults[first].code
           /\ shardResults[first].code # 0
        THEN shardResults[first].code
        ELSE ErrMultipleShardFailures

\* C2 as stated: whenever cursor validation meets a reply that is not ok, the
\* error surfaced carries the failures' representative code, whatever the
\* other replies are and wherever the failing reply stands.
C2_Original ==
    (pc = "done" /\ EventsOf("parseCursors") # {} /\ FailedShards # {}) =>
        (outcome.kind = "threw" /\ outcome.code = ExpectedCode)

\* C2 as amended: the same, provided every reply before the first failing
\* one honours the cursor contract.
C2_RepresentativeCode ==
    (/\ pc = "done"
     /\ EventsOf("parseCursors") # {}
     /\ FailedShards # {}
     /\ \A i \in Shards :
           (\A j \in FailedShards : i < j) => HonoursContract(i)) =>
        outcome = Threw("uassert", ExpectedCode)

\* C2's case: a conforming reply, then two failures with different codes.
C2_Witness ==
    /\ pc = "done"
    /\ EventsOf("parseCursors") # {}
    /\ \E i, j \in FailedShards : shardResults[i].code # shardResults[j].code
    /\ outcome = Threw("uassert", ErrMultipleShardFailures)

\* ---------------------------------------------------------------- C3

\* The merge command reached the primary and the primary ran it.
RemoteMergeExecuted ==
    /\ EventsOf("merge") # {}
    /\ mergedResults # NoReply
    /\ wasMergeCursorsSupported(mergedResults)

\* The handle of shard i was given to a merge step that ran.
HandedToExecutedMerge(i) ==
    /\ mergeSource.kind = "mergeCursors"
    /\ \E k \in 1..Len(mergeSource.cursors) :
          mergeSource.cursors[k] = [target |-> i, id |-> shardResults[i].id]
    /\ \/ RemoteMergeExecuted
       \/ \E k \in EventsOf("localMerge") : trace[k].source = mergeSource

\* C3: when run() has ended, in whatever way, every cursor a shard opened in
\* the first round was handed to a merge step that ran, or a kill was issued
\* for it.
C3_NoCursorLeak ==
    (pc = "done" /\ routing = "sharded" /\ ~cmdObj.explain) =>
        \A i \in Shards :
            OpenedCursor(i) =>
                (KillIssued(i, shardResults[i].id) \/ HandedToExecutedMerge(i))

\* ---------------------------------------------------------------- C4

\* C4: when every first-round reply is ok and honours the cursor contract,
\* cursor validation yields one handle (shard, non-zero id) per reply, in
\* the replies' order, and the merge pipeline's source, as sent in the merge
\* command, holds exactly these handles.
C4_OneHandlePerShard ==
    (ActedOnResults /\ \A i \in Shards : HonoursContract(i)) =>
        /\ mergeSource.kind = "mergeCursors"
        /\ Len(mergeSource.cursors) = Len(shardResults)
        /\ \A i \in Shards :
              /\ mergeSource.cursors[i].target = i
              /\ mergeSource.cursors[i].id = shardResults[i].id
              /\ mergeSource.cursors[i].id # 0
        /\ mergeCmd.pipeline[1] = mergeSource
        /\ \A k \in EventsOf("merge") : trace[k].cmd.pipeline[1] = mergeSource

\* C4's case: two conforming replies, and the merge command has been sent.
C4_Witness ==
    /\ pc = "merged"
    /\ Len(shardResults) = 2
    /\ \A i \in Shards : HonoursContract(i)
    /\ Len(mergeSource.cursors) = 2
    /\ EventsOf("merge") # {}

\* ---------------------------------------------------------------- C5

\* C5: in a non-explain operation, when any first-round reply carries the
\* legacy errmsg, the router validates no cursor, builds no $mergeCursors
\* source and sends no merge command, whatever the other replies are; when a
\* pipeline runs, it runs over the raw results of the re-dispatch.
C5_FallbackIsGlobal ==
    (ActedOnResults /\ LegacyShards # {}) =>
        /\ EventsOf("parseCursors") = {}
        /\ EventsOf("merge") = {}
        /\ mergeSource.kind # "mergeCursors"
        /\ mergeCmd = NoCommand
        /\ pc \in {"fallback", "fallbackGathered", "done"}
        /\ \A k \in EventsOf("localMerge") :
              trace[k].source = CommandShardsSource(fallbackResults)

\* C5's case: the second shard is the legacy one, the first opened a cursor,
\* and the fallback's merge ran.
C5_Witness ==
    /\ pc = "done"
    /\ Len(shardResults) = 2
    /\ OpenedCursor(1)
    /\ HonoursContract(1)
    /\ 2 \in LegacyShards
    /\ EventsOf("localMerge") # {}
    /\ outcome = Returned(TRUE)


\* ---------------------------------------------------------------- C6

\* C6: when the operation switches to the fallback, a kill for every cursor
\* the first round opened is in the trace before noCursorFallback does
\* anything (its eligibility check, the re-dispatch), and before the
\* re-dispatch in the trace's order; and no kill is ever issued for a reply
\* that is not ok or whose cursor id is 0.
C6_KillsBeforeFallback ==
    /\ (pc \in {"fallback", "fallbackGathered"} \/ (ActedOnResults /\ LegacyShards # {})) =>
          \A i \in Shards : OpenedCursor(i) => KillIssued(i, shardResults[i].id)
    /\ \A d \in EventsOf("dispatch") :
          trace[d].round = 2 =>
             \A i \in Shards :
                OpenedCursor(i) =>
                   \E k \in EventsOf("kill") :
                      k < d /\ trace[k].shard = i /\ trace[k].id = shardResults[i].id
    /\ \A k \in EventsOf("kill") :
          /\ trace[k].shard \in Shards
          /\ shardResults[trace[k].shard].ok
          /\ shardResults[trace[k].shard].id # 0
          /\ trace[k].id = shardResults[trace[k].shard].id

\* C6's case: the first shard opened a cursor, the second is the legacy one;
\* the only kill is the first shard's, and the command has been sent again.
C6_Witness ==
    /\ pc = "fallbackGathered"
    /\ Len(shardResults) = 2
    /\ OpenedCursor(1)
    /\ 2 \in LegacyShards
    /\ \E d \in EventsOf("dispatch") : trace[d].round = 2
    /\ EventsOf("kill") # {}
    /\ \A k \in EventsOf("kill") : trace[k].shard = 1

\* ---------------------------------------------------------------- C7

\* The operation is in fallback mode: a first-round reply carries the legacy
\* errmsg, or the primary answered the merge command with the $mergeCursors
\* error.
FallbackEntered ==
    /\ routing = "sharded"
    /\ ~cmdObj.explain
    /\ \/ (ActedOnResults /\ LegacyShards # {})
       \/ /\ pc = "done"
          /\ EventsOf("merge") # {}
          /\ ~mergedResults.ok
          /\ mergedResults.errmsg = MergeCursorsErrmsg

\* C7: in fallback mode a request with a cursor field fails with 17020, and
\* one whose merge pipeline cannot run in the router fails with 17021 (with
\* 17020, the first of the two checks, when it has a cursor field as well);
\* in both cases nothing is re-dispatched, no pipeline runs in the router
\* and the result stays empty.
C7_FallbackNeverDegrades ==
    (FallbackEntered /\ (cmdObj.cursor.present \/ ~canRunInMongos)) =>
        /\ EventsOf("localMerge") = {}
        /\ \A d \in EventsOf("dispatch") : trace[d].round = 1
        /\ result = EmptyResult
        /\ pc \in {"fallback", "done"}
        /\ (pc = "done" =>
               outcome = Threw("uassert",
                               IF cmdObj.cursor.present
                               THEN ErrCursorNeedsAllShards
                               ELSE ErrNewFeaturesNeedAllShards))

\* C7's case: the primary rejected $mergeCursors and the merge pipeline
\* cannot run in the router.
C7_Witness ==
    /\ pc = "done"
    /\ EventsOf("merge") # {}
    /\ mergedResults.errmsg = MergeCursorsErrmsg
    /\ ~cmdObj.cursor.present
    /\ ~canRunInMongos
    /\ outcome = Threw("uassert", ErrNewFeaturesNeedAllShards)

\* ---------------------------------------------------------------- C8

\* C8: in an explain the router sends no merge command, runs no pipeline,
\* validates no cursor and kills none; for a sharded collection the only
\* thing it sends is the one dispatch round, whose command asks for no
\* cursor, so that no shard opens one; what it returns is the plan document.
C8_ExplainIsPureRead ==
    cmdObj.explain =>
        /\ EventsOf("merge") = {}
        /\ EventsOf("localMerge") = {}
        /\ EventsOf("parseCursors") = {}
        /\ EventsOf("kill") = {}
        /\ mergeSource = NoSource
        /\ mergeCmd = NoCommand
        /\ (routing = "sharded" =>
               /\ Len(trace) <= 1
               /\ \A d \in 1..Len(trace) :
                     /\ trace[d].type = "dispatch"
                     /\ trace[d].round = 1
                     /\ ~trace[d].cmd.cursor.present
               /\ \A i \in Shards : ~OpenedCursor(i)
               /\ (outcome.kind = "returned" =>
                      /\ outcome.ok
                      /\ result.kind = "explain"
                      /\ Len(result.shards) = Len(shardResults))
               /\ (outcome.kind = "threw" => result = EmptyResult))

\* C8's case: an explain over two shards has returned its plan.
C8_Witness ==
    /\ pc = "done"
    /\ cmdObj.explain
    /\ routing = "sharded"
    /\ Len(shardResults) = 2
    /\ outcome = Returned(TRUE)
    /\ result.kind = "explain"

\* ---------------------------------------------------------------- C9

\* The replies an explain rejects: not ok, or without "stages".
ExplainOffenders ==
    { i \in Shards : ~shardResults[i].ok \/ ~shardResults[i].hasStages }

\* C9: an explain over the shards' replies fails with 17403 when the first
\* offending reply is not ok and with 17404 when it has no "stages", with
\* the result document still empty, no merge and no cursor; without an
\* offender it returns splitPipeline {shardsPart, mergerPart} and one
\* {host, stages} entry per reply.
C9_ExplainResult ==
    (pc = "done" /\ routing = "sharded" /\ cmdObj.explain /\ shardResults # <<>>) =>
        IF ExplainOffenders # {}
        THEN LET first == CHOOSE i \in ExplainOffenders :
                             \A j \in ExplainOffenders : i <= j
             IN  /\ outcome = Threw("uassert",
                                    IF ~shardResults[first].ok
                                    THEN ErrExplainShardFailed
                                    ELSE ErrExplainNotSupported)
                 /\ result = EmptyResult
                 /\ EventsOf("merge") = {}
                 /\ EventsOf("localMerge") = {}
                 /\ \A i \in Shards : ~OpenedCursor(i)
        ELSE /\ outcome = Returned(TRUE)
             /\ result.kind = "explain"
             /\ result.splitPipeline = [shardsPart |-> "shardPart", mergerPart |-> "mergePart"]
             /\ Len(result.shards) = Len(shardResults)
             /\ \A i \in Shards :
                   /\ result.shards[i].name = i
                   /\ result.shards[i].host = i
                   /\ result.shards[i].stages = <<"stages", i>>

\* C9's case: the first reply is fine, the second has no "stages".
C9_Witness ==
    /\ pc = "done"
    /\ cmdObj.explain
    /\ Len(shardResults) = 2
    /\ shardResults[1].ok /\ shardResults[1].hasStages
    /\ shardResults[2].ok /\ ~shardResults[2].hasStages
    /\ outcome = Threw("uassert", ErrExplainNotSupported)

\* ---------------------------------------------------------------- C10

\* C10 as stated: every command dispatched to the shards asks for cursor
\* batchSize 0 and sets fromRouter, explain or not, in every round.
C10_Original ==
    \A d \in EventsOf("dispatch") :
        /\ trace[d].cmd.fromRouter
        /\ trace[d].cmd.cursor = Field([batchSize |-> 0])

\* C10 as amended: every command dispatched to the shards sets fromRouter;
\* it asks for cursor batchSize 0 in the first round of a request that is
\* not an explain, and has no cursor field in an explain and in the
\* fallback's re-dispatch.
C10_DispatchedCommand ==
    \A d \in EventsOf("dispatch") :
        /\ trace[d].cmd.fromRouter
        /\ trace[d].cmd.cursor =
              IF trace[d].round = 1 /\ ~cmdObj.explain
              THEN Field([batchSize |-> 0])
              ELSE NoField

\* C10's case: both rounds have been dispatched.
C10_Witness ==
    /\ \E d \in EventsOf("dispatch") : trace[d].round = 1 /\ trace[d].cmd.cursor.present
    /\ \E d \in EventsOf("dispatch") : trace[d].round = 2 /\ ~trace[d].cmd.cursor.present


\* ---------------------------------------------------------------- C11

\* C11: every command dispatched to the shards, in either round, and the
\* merge command sent to the primary carry the client's maxTimeMS and
\* $queryOptions unchanged whenever the client's command has them.
C11_OptionsForwarded ==
    /\ \A d \in EventsOf("dispatch") :
          /\ cmdObj.maxTimeMS.present => trace[d].cmd.maxTimeMS = cmdObj.maxTimeMS
          /\ cmdObj.queryOptions.present => trace[d].cmd.queryOptions = cmdObj.queryOptions
    /\ \A m \in EventsOf("merge") :
          /\ cmdObj.maxTimeMS.present => trace[m].cmd.maxTimeMS = cmdObj.maxTimeMS
          /\ cmdObj.queryOptions.present => trace[m].cmd.queryOptions = cmdObj.queryOptions


\* ---------------------------------------------------------------- C12

\* Cursor validation reaches reply i: every reply before it passed.
Examined(i) == \A j \in Shards : j < i => HonoursContract(j)

\* The fatal code of an ok reply with a cursor field that breaks the
\* contract: the first batch, then the id, then the namespace.
ContractCode(i) ==
    IF ~shardResults[i].firstBatchEmpty THEN ErrNonEmptyFirstBatch
    ELSE IF shardResults[i].id = 0 THEN ErrCursorIdZero
    ELSE ErrDifferentNs

\* C12: cursor validation lets the operation go on to the merge step only if
\* every ok reply it examined has an empty first batch, a non-zero cursor id
\* and the target namespace; an examined ok reply with a non-empty first
\* batch raises the fatal error 17023, with cursor id 0 it raises 17024, with
\* another namespace 17025 (the first of these checks that fails, in this
\* order), and no merge command is sent.
C12_ContractViolationsAreFatal ==
    EventsOf("parseCursors") # {} =>
        /\ (pc \in {"merge", "merged"} \/ EventsOf("merge") # {}) =>
              \A i \in Shards : HonoursContract(i)
        /\ \A i \in Shards :
              (/\ Examined(i)
               /\ shardResults[i].ok
               /\ shardResults[i].hasCursor
               /\ ~HonoursContract(i)) =>
                  /\ outcome = Threw("massert", ContractCode(i))
                  /\ pc = "done"
                  /\ EventsOf("merge") = {}
                  /\ EventsOf("localMerge") = {}
                  /\ mergeCmd = NoCommand

\* C12's case: the first reply conforms, the second is ok with a cursor of
\* another namespace.
C12_Witness ==
    /\ pc = "done"
    /\ Len(shardResults) = 2
    /\ HonoursContract(1)
    /\ shardResults[2].ok /\ shardResults[2].hasCursor
    /\ shardResults[2].firstBatchEmpty /\ shardResults[2].id # 0
    /\ shardResults[2].ns = OtherNs
    /\ outcome = Threw("massert", ErrDifferentNs)


\* ---------------------------------------------------------------- C13

\* C13: when cursor validation ends with a fault (a failed shard, a broken
\* cursor contract or a reply without the cursor field), a kill has been
\* issued for the cursor of every ok shard with a non-zero cursor id, the
\* faulty shard and the shards after it included, and the operation ends
\* with exactly the fault validation raised.
C13_CleanupOnEveryFault ==
    LET parsed == parseCursors(shardResults, FullNs)
    IN  (/\ pc = "done"
         /\ EventsOf("parseCursors") # {}
         /\ parsed.threw
         /\ parsed.fault \in {"uassert", "massert", "bson"}) =>
            /\ \A i \in Shards : OpenedCursor(i) => KillIssued(i, shardResults[i].id)
            /\ \A k \in EventsOf("kill") : \A p \in EventsOf("parseCursors") : p < k
            /\ outcome = Threw(parsed.fault, parsed.code)
            /\ EventsOf("merge") = {}

\* C13's case: the first shard breaks the contract with an open cursor of
\* another namespace, the second shard has an open cursor too; both are
\* killed and 17025 is raised.
C13_Witness ==
    /\ pc = "done"
    /\ Len(shardResults) = 2
    /\ shardResults[1].ok /\ shardResults[1].hasCursor
    /\ shardResults[1].firstBatchEmpty /\ shardResults[1].id # 0
    /\ shardResults[1].ns = OtherNs
    /\ OpenedCursor(2)
    /\ KillIssued(1, shardResults[1].id)
    /\ KillIssued(2, shardResults[2].id)
    /\ outcome = Threw("massert", ErrDifferentNs)

\* C13's case for a malformed reply: the first shard's ok reply has no cursor
\* field, the second shard's open cursor is killed and the parse fault is
\* what the operation ends with.
C13_WitnessMalformed ==
    /\ pc = "done"
    /\ Len(shardResults) = 2
    /\ shardResults[1].ok /\ ~shardResults[1].hasCursor
    /\ OpenedCursor(2)
    /\ KillIssued(2, shardResults[2].id)
    /\ outcome = Threw("bson", 0)


\* ---------------------------------------------------------------- C14

\* The kill events for the cursor of shard i.
KillsOf(i) == { k \in EventsOf("kill") : trace[k].shard = i }

\* C14: whenever kills were issued, every shard with an open cursor had
\* exactly one kill attempted and every other shard none, whether or not
\* earlier kills failed; a failed kill changes nothing else: after a
\* validation fault the operation ends with that fault, and before the
\* fallback the operation goes on to the eligibility check and the
\* re-dispatch.
C14_KillIsBestEffort ==
    /\ \A i \in Shards : Cardinality(KillsOf(i)) <= 1
    /\ EventsOf("kill") # {} =>
          /\ \A i \in Shards : OpenedCursor(i) <=> KillsOf(i) # {}
          /\ \A k \in EventsOf("kill") : trace[k].shard \in Shards
    /\ (pc = "done" /\ EventsOf("kill") # {} /\ EventsOf("parseCursors") # {}) =>
          LET parsed == parseCursors(shardResults, FullNs)
          IN  outcome = Threw(parsed.fault, parsed.code)
    /\ (EventsOf("kill") # {} /\ EventsOf("parseCursors") = {}) =>
          /\ pc \in {"fallback", "fallbackGathered", "done"}
          /\ pc = "done" =>
                \/ \E d \in EventsOf("dispatch") : trace[d].round = 2
                \/ /\ uassertCanMergeInMongos(canRunInMongos, cmdObj) # 0
                   /\ outcome = Threw("uassert",
                                      uassertCanMergeInMongos(canRunInMongos, cmdObj))

\* C14's case: the kill on the first shard failed, the kill on the second
\* shard was still attempted, and the validation fault is what is raised.
C14_Witness ==
    /\ pc = "done"
    /\ Len(shardResults) = 2
    /\ \E k \in KillsOf(1) : trace[k].failed
    /\ \E k \in KillsOf(2) : ~trace[k].failed
    /\ outcome = Threw("massert", ErrDifferentNs)

\* C14's case before the fallback: a kill failed and the re-dispatch ran to
\* a result.
C14_WitnessFallback ==
    /\ pc = "done"
    /\ \E k \in EventsOf("kill") : trace[k].failed
    /\ EventsOf("parseCursors") = {}
    /\ outcome = Returned(TRUE)


\* ---------------------------------------------------------------- C15

\* The primary rejected the merge command as not knowing $mergeCursors, the
\* request is one the router can merge, and run() has ended.
MergeRejectedAndEligible ==
    /\ pc = "done"
    /\ EventsOf("merge") # {}
    /\ mergedResults # NoReply
    /\ ~mergedResults.ok
    /\ mergedResults.errmsg = MergeCursorsErrmsg
    /\ uassertCanMergeInMongos(canRunInMongos, cmdObj) = 0

\* The original statement of C15: in that case the merge pipeline runs in
\* the router over the raw per-shard data.
C15_Original ==
    MergeRejectedAndEligible =>
        \A l \in EventsOf("localMerge") : trace[l].source.kind = "commandShards"

\* C15: when the primary rejects the merge command as not knowing
\* $mergeCursors and the request is one the router can merge, the merge
\* pipeline runs once in the router over the $mergeCursors source that holds
\* the validated cursor handle of every shard (not over raw result
\* documents); the router dispatches no further command to the shards and
\* sends no second merge command.
C15_LocalMergeOverCursors ==
    MergeRejectedAndEligible =>
        /\ Cardinality(EventsOf("localMerge")) = 1
        /\ \A l \in EventsOf("localMerge") :
              /\ trace[l].source = mergeSource
              /\ trace[l].source.kind = "mergeCursors"
              /\ Len(trace[l].source.cursors) = Len(shardResults)
              /\ \A i \in Shards :
                    trace[l].source.cursors[i] = [target |-> i, id |-> shardResults[i].id]
              /\ l = Len(trace)
        /\ Cardinality(EventsOf("dispatch")) = 1
        /\ Cardinality(EventsOf("merge")) = 1
        /\ fallbackResults = <<>>
        /\ outcome \in {Returned(TRUE), Threw("pipeline", 0)}
        /\ outcome = Returned(TRUE) => result = PipelineOutput(mergeSource)

\* C15's case: two shards opened cursors, the primary rejected
\* $mergeCursors, and the router's own run of the merge pipeline returned.
C15_Witness ==
    /\ MergeRejectedAndEligible
    /\ Len(shardResults) = 2
    /\ EventsOf("localMerge") # {}
    /\ outcome = Returned(TRUE)
    /\ result = PipelineOutput(mergeSource)


\* ---------------------------------------------------------------- C16

\* The primary answered the merge command with something other than the
\* $mergeCursors rejection, and run() has ended.
MergeAnswered ==
    /\ pc = "done"
    /\ EventsOf("merge") # {}
    /\ mergedResults # NoReply
    /\ wasMergeCursorsSupported(mergedResults)

\* C16: when the primary answers the merge command and the answer is not the
\* $mergeCursors rejection, the result is the primary's document, errmsg and
\* code included, and run() returns that document's ok.
C16_MergeResultVerbatim ==
    MergeAnswered =>
        /\ result.kind = "elements"
        /\ result.doc = mergedResults
        /\ outcome = Returned(mergedResults.ok)
        /\ EventsOf("localMerge") = {}

\* C16's case: the primary answered ok=false with a code and an errmsg, and
\* they are in the result of a run() that returned false.
C16_Witness ==
    /\ MergeAnswered
    /\ ~mergedResults.ok
    /\ mergedResults.code = 13
    /\ result.doc.code = 13
    /\ result.doc.errmsg = "other"
    /\ outcome = Returned(FALSE)


\* ---------------------------------------------------------------- C17

\* The dispatch events of a round.
DispatchesOf(round) == { d \in EventsOf("dispatch") : trace[d].round = round }

\* The primary's answer to the one remote call of a finished run() carries
\* the stale-config code.
PassthroughAnsweredStale ==
    /\ pc = "done"
    /\ \E p \in EventsOf("passthrough") :
          ~trace[p].reply.ok /\ trace[p].reply.code = SendStaleConfigCode
MergeAnsweredStale ==
    /\ pc = "done"
    /\ EventsOf("merge") # {}
    /\ mergedResults # NoReply
    /\ ~mergedResults.ok
    /\ mergedResults.code = SendStaleConfigCode

\* C17: a pass-through or merge answer with the stale-config code ends the
\* operation with the stale-config exception, not with a returned failure
\* document; and one operation has at most one cursor-requesting dispatch,
\* at most one fallback re-dispatch and at most one merge command.
C17_StaleSurfaced ==
    /\ PassthroughAnsweredStale => outcome = Threw("staleConfig", SendStaleConfigCode)
    /\ MergeAnsweredStale => outcome = Threw("staleConfig", SendStaleConfigCode)
    /\ Cardinality(DispatchesOf(1)) <= 1
    /\ Cardinality(DispatchesOf(2)) <= 1
    /\ Cardinality(EventsOf("merge")) <= 1


\* ---------------------------------------------------------------- C18

\* C18: when sharding is not enabled or the collection is not sharded, the
\* pipeline is not split and nothing is dispatched, validated, killed or
\* merged; the only remote call is one pass-through of the client's command,
\* unchanged, to the primary, and when the primary answers, its document is
\* the result and its ok the value returned, except that a failure with the
\* stale-config code is raised as the stale-config error.
C18_Passthrough ==
    routing = "unsharded" =>
        /\ shardedCommand = NoCommand
        /\ shardResults = <<>> /\ fallbackResults = <<>>
        /\ mergeSource = NoSource /\ mergeCmd = NoCommand
        /\ Len(trace) <= 1
        /\ \A e \in 1..Len(trace) :
              /\ trace[e].type = "passthrough"
              /\ trace[e].host = "primary"
              /\ trace[e].cmd = cmdObj
        /\ pc = "done" =>
              /\ Len(trace) = 1
              /\ LET reply == trace[1].reply
                 IN  IF reply = NoReply
                     THEN outcome = Threw("massert", ErrNoResults)
                     ELSE IF ~reply.ok /\ reply.code = SendStaleConfigCode
                     THEN outcome = Threw("staleConfig", SendStaleConfigCode)
                     ELSE /\ result = [kind |-> "elements", doc |-> reply]
                          /\ outcome = Returned(reply.ok)

\* C18's case: an unsharded collection, a request with every option, the
\* primary's failure document returned as it is.
C18_Witness ==
    /\ routing = "unsharded"
    /\ pc = "done"
    /\ cmdObj.cursor.present /\ cmdObj.maxTimeMS.present
    /\ trace[1].cmd = cmdObj
    /\ ~trace[1].reply.ok
    /\ result = [kind |-> "elements", doc |-> trace[1].reply]
    /\ outcome = Returned(FALSE)

\* C18's exception: the primary's stale-config failure is raised.
C18_WitnessStale ==
    /\ routing = "unsharded"
    /\ pc = "done"
    /\ trace[1].reply.code = SendStaleConfigCode
    /\ outcome = Threw("staleConfig", SendStaleConfigCode)


\* ---------------------------------------------------------------- C19

\* C19: the merge pipeline's source is of one kind for the whole operation:
\* either the $mergeCursors source with the cursor handle of every shard of
\* the first round, and then there was no re-dispatch and no raw result is
\* merged, or the source over the raw results of every shard of the
\* re-dispatch, and then no cursor was validated and no merge command was
\* built or sent; every local merge runs over that one source, and a merge
\* command's pipeline has exactly one source stage in front of the merge
\* part.
C19_OneModePerOperation ==
    /\ mergeSource.kind \in {"none", "mergeCursors", "commandShards"}
    /\ mergeSource.kind = "mergeCursors" =>
          /\ Len(mergeSource.cursors) = Len(shardResults)
          /\ \A i \in Shards :
                mergeSource.cursors[i] = [target |-> i, id |-> shardResults[i].id]
          /\ fallbackResults = <<>>
          /\ DispatchesOf(2) = {}
          /\ ~doAnyShardsNotSupportCursors(shardResults)
    /\ mergeSource.kind = "commandShards" =>
          /\ mergeSource.results = fallbackResults
          /\ Len(fallbackResults) >= 1
          /\ doAnyShardsNotSupportCursors(shardResults)
          /\ EventsOf("parseCursors") = {}
          /\ EventsOf("merge") = {}
          /\ mergeCmd = NoCommand
    /\ \A l \in EventsOf("localMerge") : trace[l].source = mergeSource
    /\ Cardinality(EventsOf("localMerge")) <= 1
    /\ \A m \in EventsOf("merge") :
          /\ Len(trace[m].cmd.pipeline) = 2
          /\ trace[m].cmd.pipeline[1] = mergeSource
          /\ trace[m].cmd.pipeline[1].kind = "mergeCursors"
          /\ trace[m].cmd.pipeline[2] = "mergePart"

\* C19's case: one shard of the first round opened a cursor and the other
\* is a legacy shard; the merge ran over the raw results of both shards of
\* the re-dispatch and over no cursor.
C19_Witness ==
    /\ pc = "done"
    /\ Len(shardResults) = 2
    /\ \E i \in Shards : OpenedCursor(i)
    /\ mergeSource.kind = "commandShards"
    /\ Len(mergeSource.results) = 2
    /\ EventsOf("localMerge") # {}
    /\ outcome = Returned(TRUE)

\* C19's other case: both shards' cursors are the source of the merge command.
C19_WitnessNormal ==
    /\ pc = "done"
    /\ mergeSource.kind = "mergeCursors"
    /\ Len(mergeSource.cursors) = 2
    /\ EventsOf("merge") # {}
    /\ outcome = Returned(TRUE)


\* ---------------------------------------------------------------- C20

\* The events of the steps that follow a dispatch round: the kills, cursor
\* validation, the merge command and the local merge.
MergeStepEvents ==
    EventsOf("kill") \cup EventsOf("parseCursors")
        \cup EventsOf("merge") \cup EventsOf("localMerge")

\* C20: a dispatch round is over only when every shard it was sent to has a
\* result; cursor validation, a kill, the merge command, a local merge and
\* the explain result come after the first round's dispatch and see a result
\* for each of its shards; a local merge over raw results comes after the
\* re-dispatch and sees a result for each of its shards; and a merge command
\* is sent only after cursor validation, with every shard's reply honouring
\* the cursor contract.
C20_DispatchBarrier ==
    /\ \A d \in DispatchesOf(1) : trace[d].shards = Len(shardResults)
    /\ \A d \in DispatchesOf(2) : trace[d].shards = Len(fallbackResults)
    /\ \A e \in MergeStepEvents :
          \E d \in DispatchesOf(1) :
             d < e /\ trace[d].shards >= 1 /\ trace[d].shards = Len(shardResults)
    /\ \A l \in EventsOf("localMerge") :
          trace[l].source.kind = "commandShards" =>
             \E d \in DispatchesOf(2) :
                /\ d < l
                /\ trace[d].shards >= 1
                /\ Len(trace[l].source.results) = trace[d].shards
    /\ result.kind = "explain" =>
          \E d \in DispatchesOf(1) :
             trace[d].shards >= 1 /\ Len(result.shards) = trace[d].shards
    /\ (pc \in {"merge", "merged"} \/ EventsOf("merge") # {}) =>
          /\ EventsOf("parseCursors") # {}
          /\ \A m \in EventsOf("merge") : \A p \in EventsOf("parseCursors") : p < m
          /\ \A i \in Shards : HonoursContract(i)
          /\ \A d \in DispatchesOf(1) :
                Len(mergeCmd.pipeline[1].cursors) = trace[d].shards

\* C20's case: two shards replied, validation passed for both, and the merge
\* command was sent after it.
C20_Witness ==
    /\ pc = "done"
    /\ \E d \in DispatchesOf(1) : trace[d].shards = 2
    /\ \E p \in EventsOf("parseCursors") : \E m \in EventsOf("merge") : p < m
    /\ \A i \in Shards : HonoursContract(i)
    /\ Len(shardResults) = 2


\* ---------------------------------------------------------------- C21

\* What a run did, without what it was answered: the commands sent, in
\* order, with their targets, and the kills issued.
Observed ==
    [k \in 1..Len(trace) |->
        CASE trace[k].type = "dispatch" ->
                [type |-> "dispatch", round |-> trace[k].round, cmd |-> trace[k].cmd]
          [] trace[k].type = "kill" ->
                [type |-> "kill", shard |-> trace[k].shard, id |-> trace[k].id]
          [] trace[k].type = "passthrough" ->
                [type |-> "passthrough", host |-> trace[k].host, cmd |-> trace[k].cmd]
          [] OTHER -> trace[k]]

\* The inputs of a finished run: the request (cmdObj), the routing context
\* (routing, canRunInMongos), the replies of the first round (shardResults,
\* empty when the dispatch raised), of the re-dispatch (fallbackResults, empty
\* when it raised), of the merge host (mergedResults) and of the pass-through
\* (logged with the call).  What follows is what a run with these inputs must
\* have done and returned.
ExpectedKills ==
    LET targets == killAllCursors(shardResults)
    IN  [j \in 1..Len(targets) |->
            [type |-> "kill", shard |-> targets[j].shard, id |-> targets[j].id]]

ExpectedFirstDispatch ==
    <<[type |-> "dispatch", round |-> 1, cmd |-> ShardedCommand(cmdObj)]>>

ExpectedFallback ==
    IF uassertCanMergeInMongos(canRunInMongos, cmdObj) # 0 THEN <<>>
    ELSE <<[type |-> "dispatch", round |-> 2, cmd |-> FallbackCommand(cmdObj)]>>
         \o IF fallbackResults = <<>> THEN <<>>
            ELSE <<[type |-> "localMerge",
                    source |-> CommandShardsSource(fallbackResults)]>>

ExpectedNormal ==
    LET parsed == parseCursors(shardResults, FullNs)
        source == MergeCursorsSource(parsed.cursors)
    IN  <<[type |-> "parseCursors"]>>
        \o IF parsed.threw
           THEN IF parsed.fault = "invariant" THEN <<>> ELSE ExpectedKills
           ELSE <<[type |-> "merge", host |-> "primary",
                   cmd |-> MergeCommand(cmdObj, source)]>>
                \o IF /\ mergedResults # NoReply
                      /\ ~mergedResults.ok
                      /\ ~wasMergeCursorsSupported(mergedResults)
                      /\ uassertCanMergeInMongos(canRunInMongos, cmdObj) = 0
                   THEN <<[type |-> "localMerge", source |-> source]>>
                   ELSE <<>>

ExpectedObserved ==
    IF routing \in {"parseError", "noDatabase"} THEN <<>>
    ELSE IF routing = "unsharded"
    THEN <<[type |-> "passthrough", host |-> "primary", cmd |-> cmdObj]>>
    ELSE IF shardResults = <<>> \/ cmdObj.explain THEN ExpectedFirstDispatch
    ELSE IF doAnyShardsNotSupportCursors(shardResults)
    THEN ExpectedFirstDispatch \o ExpectedKills \o ExpectedFallback
    ELSE ExpectedFirstDispatch \o ExpectedNormal

\* The outcomes a run with these inputs may end with.  The status of the
\* failed database lookup and the end of the router's own pipeline run are
\* inputs that show in the outcome only; with them fixed the set is one
\* outcome.
ExpectedOutcomes ==
    IF routing = "parseError" THEN {Returned(FALSE)}
    ELSE IF routing = "noDatabase" THEN {Returned(TRUE), Returned(FALSE)}
    ELSE IF routing = "unsharded"
    THEN LET reply == trace[1].reply
         IN  IF reply = NoReply THEN {Threw("massert", ErrNoResults)}
             ELSE IF ~reply.ok /\ reply.code = SendStaleConfigCode
             THEN {Threw("staleConfig", SendStaleConfigCode)}
             ELSE {Returned(reply.ok)}
    ELSE IF shardResults = <<>> THEN {Threw("staleConfig", SendStaleConfigCode)}
    ELSE IF cmdObj.explain
    THEN LET code == uassertAllShardsSupportExplain(shardResults)
         IN  IF code # 0 THEN {Threw("uassert", code)} ELSE {Returned(TRUE)}
    ELSE LET elig == uassertCanMergeInMongos(canRunInMongos, cmdObj)
             parsed == parseCursors(shardResults, FullNs)
         IN  IF doAnyShardsNotSupportCursors(shardResults)
             THEN IF elig # 0 THEN {Threw("uassert", elig)}
                  ELSE IF fallbackResults = <<>>
                  THEN {Threw("staleConfig", SendStaleConfigCode)}
                  ELSE {Returned(TRUE), Threw("pipeline", 0)}
             ELSE IF parsed.threw THEN {Threw(parsed.fault, parsed.code)}
             ELSE IF mergedResults = NoReply THEN {Threw("massert", ErrNoResults)}
             ELSE IF mergedResults.ok \/ wasMergeCursorsSupported(mergedResults)
             THEN {Returned(mergedResults.ok)}
             ELSE IF elig # 0 THEN {Threw("uassert", elig)}
             ELSE {Returned(TRUE), Threw("pipeline", 0)}

\* The result document of a run with these inputs that ended with `out`.
ExpectedResult(out) ==
    IF out.kind # "returned" THEN EmptyResult
    ELSE IF routing = "parseError" THEN EmptyResult
    ELSE IF routing = "noDatabase" THEN [kind |-> "emptyResultSet"]
    ELSE IF routing = "unsharded" THEN [kind |-> "elements", doc |-> trace[1].reply]
    ELSE IF cmdObj.explain THEN ExplainResult(shardResults)
    ELSE IF doAnyShardsNotSupportCursors(shardResults)
    THEN PipelineOutput(CommandShardsSource(fallbackResults))
    ELSE IF mergedResults.ok \/ wasMergeCursorsSupported(mergedResults)
    THEN [kind |-> "elements", doc |-> mergedResults]
    ELSE PipelineOutput(MergeCursorsSource(parseCursors(shardResults, FullNs).cursors))

C21_WitnessNormal ==
    /\ pc = "done"
    /\ EventsOf("merge") # {}
    /\ outcome = Returned(FALSE)
    /\ result = ExpectedResult(outcome)


\* ---------------------------------------------------------------- C22

\* C22: the invariant of cursor validation never fails: no run ends in its
\* abort, and whenever validation ran, the representative code of the
\* replies is, for each failing reply, that reply's own code or 17022,
\* replies without a code (code 0) included.
C22_InvariantHolds ==
    /\ outcome.fault # "invariant"
    /\ EventsOf("parseCursors") # {} =>
          \A i \in FailedShards :
             \/ representativeCode(shardResults) = shardResults[i].code
             \/ representativeCode(shardResults) = ErrMultipleShardFailures

\* C22's case: validation reached a failing reply without a code while the
\* other failing reply has one; 17022 is raised.
C22_Witness ==
    /\ pc = "done"
    /\ EventsOf("parseCursors") # {}
    /\ Len(shardResults) = 2
    /\ ~shardResults[1].ok /\ shardResults[1].code = 0
    /\ ~shardResults[2].ok /\ shardResults[2].code # 0
    /\ outcome = Threw("uassert", ErrMultipleShardFailures)

\* C22's case with one shared code: both failing replies carry it, and it is
\* the code raised.
C22_WitnessShared ==
    /\ pc = "done"
    /\ EventsOf("parseCursors") # {}
    /\ Len(shardResults) = 2
    /\ ~shardResults[1].ok /\ ~shardResults[2].ok
    /\ shardResults[1].code # 0
    /\ outcome = Threw("uassert", shardResults[1].code)


\* ---------------------------------------------------------------- C23

\* The reply of shard i is faulty for cursor validation: not ok, without a
\* cursor field, or breaking the cursor contract.
Faulty(i) == ~HonoursContract(i)

\* The fault validation raises at the reply of shard i: the representative
\* code for a failed reply, a type error for a missing cursor field, and
\* for a cursor the first of the three assertions that fails.
FaultAt(i) ==
    IF ~shardResults[i].ok THEN Threw("uassert", representativeCode(shardResults))
    ELSE IF ~shardResults[i].hasCursor THEN Threw("bson", 0)
    ELSE Threw("massert", ContractCode(i))

\* C23: validation examines the replies in order and stops at the first
\* faulty one: the fault raised is that of the lowest-index faulty shard,
\* with the check order ok, first batch, id, namespace within a reply; a
\* contract violation on an earlier shard is raised rather than the failure
\* of a later shard.
C23_FirstFaultyShardDecides ==
    (pc = "done" /\ EventsOf("parseCursors") # {}) =>
        \A i \in Shards :
            (Faulty(i) /\ \A j \in Shards : j < i => ~Faulty(j)) =>
                /\ outcome = FaultAt(i)
                /\ EventsOf("merge") = {}

\* C23's case: the first shard's cursor has a first batch and id 0 (17023
\* goes before 17024), the second shard failed; 17023 is raised.
C23_Witness ==
    /\ pc = "done"
    /\ EventsOf("parseCursors") # {}
    /\ Len(shardResults) = 2
    /\ shardResults[1].ok /\ shardResults[1].hasCursor
    /\ ~shardResults[1].firstBatchEmpty /\ shardResults[1].id = 0
    /\ ~shardResults[2].ok
    /\ outcome = Threw("massert", ErrNonEmptyFirstBatch)

\* C23's case the other way round: the failed shard comes first.
C23_WitnessFailureFirst ==
    /\ pc = "done"
    /\ EventsOf("parseCursors") # {}
    /\ Len(shardResults) = 2
    /\ ~shardResults[1].ok /\ shardResults[1].code # 0
    /\ shardResults[2].ok /\ shardResults[2].hasCursor /\ shardResults[2].id = 0
    /\ outcome = Threw("uassert", shardResults[1].code)


\* ---------------------------------------------------------------- C24

\* A non-explain run has acted on first-round replies of which one is the
\* legacy error and another an unrelated failure.
LegacyAndUnrelatedFailure ==
    /\ ActedOnResults
    /\ ~cmdObj.explain
    /\ LegacyShards # {}
    /\ FailedShards \ LegacyShards # {}

HandedOver(i) ==
    /\ mergeSource.kind = "mergeCursors"
    /\ \E c \in 1..Len(mergeSource.cursors) :
          mergeSource.cursors[c] = [target |-> i, id |-> shardResults[i].id]

\* C25: the router issues at most one kill per shard and cursor id, and a
\* cursor whose handle is in the merge source is never killed by the router:
\* once validation has returned, no kill is issued on any later path (the
\* merge command, its failure, the eligibility error, the local merge).
C25_LinearHandOff ==
    /\ \A k1, k2 \in EventsOf("kill") :
          (trace[k1].shard = trace[k2].shard /\ trace[k1].id = trace[k2].id) => k1 = k2
    /\ \A i \in Shards : HandedOver(i) => KillsOf(i) = {}
    /\ mergeSource.kind = "mergeCursors" =>
          /\ EventsOf("kill") = {}
          /\ \A i \in Shards : HandedOver(i)
    /\ EventsOf("kill") # {} =>
          /\ EventsOf("merge") = {}
          /\ \A l \in EventsOf("localMerge") : trace[l].source.kind = "commandShards"

\* C25's case: two cursors were handed over, the primary rejected
\* $mergeCursors, the router merged them itself, and no kill was issued.
C25_Witness ==
    /\ pc = "done"
    /\ Len(shardResults) = 2
    /\ HandedOver(1) /\ HandedOver(2)
    /\ EventsOf("localMerge") # {}
    /\ EventsOf("kill") = {}

\* C25's other case: two cursors were killed, once each, and none was
\* handed over.
C25_WitnessKilled ==
    /\ pc = "done"
    /\ Cardinality(EventsOf("kill")) = 2
    /\ KillsOf(1) # {} /\ KillsOf(2) # {}
    /\ mergeSource.kind # "mergeCursors"

=============================================================================
